---- MODULE Spec2Model ----
(***************************************************************************)
(* Fixed income dashboard (app.py): create_dashboard runs load_data, then  *)
(* process_data (rename, filter, numeric coercion, four aggregations) and  *)
(* hands the four views to the plotting layer.  The model follows the      *)
(* statements of app.py one by one; the pandas calls are modelled by what  *)
(* pandas does (boolean-mask selection, to_numeric(errors='coerce'),       *)
(* nlargest with keep='first', groupby(...).sum(), sort_values).           *)
(*                                                                         *)
(* Weights are integers here: sums are exact, so nothing in this model     *)
(* speaks about floating point rounding.                                   *)
(***************************************************************************)
EXTENDS Integers, Sequences, FiniteSets, TLC

VARIABLES
    pc,                 \* position in create_dashboard / process_data
    uploaded,           \* what files.upload() and read_excel delivered
    df,                 \* the data frame process_data works on
    top_holdings,       \* DataFrame[['Security','Weight']]: sequence of rows
    country_exposure,   \* Series: sequence of <<label, value>>
    rating_exposure,    \* Series: sequence of <<label, value>>
    top_issuers,        \* Series: sequence of <<label, value>>
    exc,                \* the exception in flight (or NoExc)
    stdout,             \* what print() has written, in order
    fig                 \* the figure handed to fig.show() (or NoFig)

vars == <<pc, uploaded, df, top_holdings, country_exposure, rating_exposure,
          top_issuers, exc, stdout, fig>>

-----------------------------------------------------------------------------
(* Program constants *)

\* app.py:23, the names assigned to df.columns
ColumnNames == <<"Security", "Weight", "Rating", "Country", "Issuer", "SecurityType">>

\* app.py:26, the filter literal
CorporateBonds == "Corporate Bonds"

\* app.py:33 and app.py:42, nlargest(10, ...)
TopN == 10

-----------------------------------------------------------------------------
(* Cells.  Every cell is a record [t, x]: a number, a text or a blank      *)
(* (read_excel yields NaN for an empty cell).  A text in the Weight column *)
(* is a sequence of characters so that to_numeric has something to parse;  *)
(* a text in any other column is a string.                                 *)

Num(n) == [t |-> "num", x |-> n]
Str(s) == [t |-> "str", x |-> s]
NaN == [t |-> "nan", x |-> 0]

IsNum(c) == c.t = "num"
IsNaN(c) == c.t = "nan"

-----------------------------------------------------------------------------
(* Bounds of the input family *)

\* largest number of rows of the generated holdings block of a sheet
MaxBase == 11
\* largest number of hand-picked rows put before and after that block
MaxExtra == 2
\* widest sheet, in columns
MaxCols == 7

NumNames == Len(ColumnNames)

SecurityLabels == <<"S01", "S02", "S03", "S04", "S05", "S06", "S07", "S08",
                    "S09", "S10", "S11", "S12", "S13", "S14">>
IssuerLabels == <<"I01", "I02", "I03", "I04", "I05", "I06", "I07", "I08",
                  "I09", "I10", "I11", "I12", "I13", "I14">>
RatingLabels == <<"AAA", "BBB", "CCC">>
CountryLabels == <<"DE", "FR", "US">>

\* the labels of all group keys in Python's string order (groupby sorts its keys)
KeyOrder == <<"AAA", "BBB", "CCC", "DE", "FR">> \o IssuerLabels \o <<"US", "X", "Y", "Z">>

KeyRank(k) == CHOOSE i \in 1..Len(KeyOrder) : KeyOrder[i] = k

\* row i of the generated block: distinct securities and issuers, distinct
\* positive weights, ratings and countries in rotation, all corporate bonds
BaseWeight(i) == ((i * 7) % 17) + 1

BaseRow(i) == << Str(SecurityLabels[i]), Num(BaseWeight(i)),
                 Str(RatingLabels[(i % Len(RatingLabels)) + 1]),
                 Str(CountryLabels[(i % Len(CountryLabels)) + 1]),
                 Str(IssuerLabels[i]), Str(CorporateBonds) >>

Base(k) == [i \in 1..k |-> BaseRow(i)]

\* hand-picked rows: text and blank weights, blank categories, other
\* security types, a weight that ties with a generated row, a shared issuer
ExtraRows == <<
    << Str("A"), Str(<<"5">>), Str("AAA"), Str("US"), Str("X"), Str(CorporateBonds) >>,
    << Str("B"), Str(<<"b", "a", "d">>), Str("BBB"), Str("DE"), Str("Y"), Str(CorporateBonds) >>,
    << Str("C"), Str(<<"1", "0">>), Str("AAA"), Str("US"), Str("Z"), Str("Government Bonds") >>,
    << Str("D"), Num(8), Str("AAA"), NaN, Str("I01"), Str(CorporateBonds) >>,
    << Str("E"), NaN, NaN, Str("US"), Str("X"), Str(CorporateBonds) >>,
    << Str("F"), Str(<<"0">>), Str("BBB"), Str("FR"), NaN, Str(CorporateBonds) >>,
    << Str("G"), Str(<<"-", "2">>), Str("CCC"), Str("FR"), Str("Z"), Str(CorporateBonds) >>,
    << Str("H"), Num(3), Str("CCC"), Str("DE"), Str("Y"), Str("corporate bonds") >>
>>

ExtraSeqs == UNION { [1..m -> 1..Len(ExtraRows)] : m \in 0..MaxExtra }

\* the header rows a sheet may carry
Headers == { <<"Name", "Weight (%)", "Credit Rating", "Domicile", "Issuer Name", "Asset Class">>,
             ColumnNames }

\* sizes of the generated block: none, one below the cut of ten, the largest
BaseSizes == {0, TopN - 1, MaxBase}

\* the six-column tables: extras[1..cut], the generated block, extras[cut+1..]
TableOf(k, es, cut) ==
    [i \in 1..cut |-> ExtraRows[es[i]]] \o Base(k)
        \o [i \in 1..(Len(es) - cut) |-> ExtraRows[es[cut + i]]]

\* the same table on a sheet of w columns: narrower sheets lose the last
\* columns, wider sheets carry further text columns (sheets of another
\* width than six are generated for tables with at most one hand-picked row)
Widen(row, w) == [j \in 1..w |-> IF j <= Len(row) THEN row[j] ELSE Str("note")]
WidenHeader(h, w) == [j \in 1..w |-> IF j <= Len(h) THEN h[j] ELSE "Unnamed"]

Sheet(h, rows, w) ==
    [columns |-> WidenHeader(h, w), rows |-> [i \in 1..Len(rows) |-> Widen(rows[i], w)]]

Widths == (NumNames - 1)..MaxCols

-----------------------------------------------------------------------------
(* Exceptions and markers *)

\* an exception: its class, its message (what str(e) gives) and the number
\* the message carries, if any
Exception(type, msg, n) == [type |-> type, msg |-> msg, n |-> n]
NoExc == Exception("none", "", 0)
NoFig == [shown |-> FALSE]
NoFrame == [columns |-> <<>>, rows |-> <<>>, wdtype |-> "none"]
NoFile == [kind |-> "nofile"]
BadBytes == [kind |-> "badbytes"]

-----------------------------------------------------------------------------
(* Sequence helpers *)

Take(s, n) == SubSeq(s, 1, IF n < Len(s) THEN n ELSE Len(s))

RemoveAt(s, i) == SubSeq(s, 1, i - 1) \o SubSeq(s, i + 1, Len(s))

RECURSIVE SumVals(_)
SumVals(s) == IF s = <<>> THEN 0 ELSE Head(s) + SumVals(Tail(s))

\* position of the column labelled name (df['name'])
ColIdx(columns, name) == CHOOSE j \in 1..Len(columns) : columns[j] = name

-----------------------------------------------------------------------------
(* load_data: pd.read_excel(io.BytesIO(uploaded[file_name]), skiprows=6)   *)

\* dtype read_excel infers for the second column: float64 when every cell is
\* a number or blank, object as soon as one cell is a text (or there is no row)
InferDtype(rows, j) ==
    IF rows # <<>> /\ \A i \in 1..Len(rows) : rows[i][j].t \in {"num", "nan"}
    THEN "float64" ELSE "object"

ReadExcel(sheet) ==
    [columns |-> sheet.columns, rows |-> sheet.rows, wdtype |-> InferDtype(sheet.rows, 2)]

-----------------------------------------------------------------------------
(* process_data, line 23: df.columns = [...]                               *)

\* Variant: the first six columns are kept and renamed, the others dropped
\* (df = df.iloc[:, :6] before the assignment)
SetColumnsFirstSix(frame, names) ==
    IF Len(frame.columns) < Len(names)
    THEN [ok |-> FALSE, frame |-> frame,
          exc |-> Exception("ValueError", "Length mismatch: Expected axis has n elements",
                            Len(frame.columns))]
    ELSE [ok |-> TRUE,
          frame |-> [frame EXCEPT !.columns = names,
                                  !.rows = [i \in DOMAIN frame.rows |->
                                               SubSeq(frame.rows[i], 1, Len(names))]],
          exc |-> NoExc]

\* pandas refuses a list of labels whose length differs from the number of
\* columns (ValueError: Length mismatch); otherwise the labels are replaced
\* position by position and the old header is gone
SetColumns(frame, names) ==
    IF Len(names) # Len(frame.columns)
    THEN [ok |-> FALSE, frame |-> frame,
          exc |-> Exception("ValueError", "Length mismatch: Expected axis has n elements",
                            Len(frame.columns))]
    ELSE [ok |-> TRUE, frame |-> [frame EXCEPT !.columns = names], exc |-> NoExc]

(* process_data, line 26: df[df['SecurityType'] == 'Corporate Bonds']     *)

\* Variant: the comparison ignores case (df['SecurityType'].str.lower() == ...)
Lower(s) == IF s \in {"Corporate Bonds", "CORPORATE BONDS"} THEN "corporate bonds" ELSE s

EqMaskIgnoreCase(frame, name, lit) ==
    LET j == ColIdx(frame.columns, name)
    IN [i \in 1..Len(frame.rows) |->
           frame.rows[i][j].t = "str" /\ Lower(frame.rows[i][j].x) = Lower(lit)]

\* the boolean mask of the comparison; a blank cell compares unequal
EqMask(frame, name, lit) ==
    LET j == ColIdx(frame.columns, name)
    IN [i \in 1..Len(frame.rows) |-> frame.rows[i][j] = Str(lit)]

\* selection by a boolean mask keeps the rows at the True positions, in order
RECURSIVE SelectRows(_, _)
SelectRows(rows, mask) ==
    IF rows = <<>> THEN <<>>
    ELSE (IF Head(mask) THEN <<Head(rows)>> ELSE <<>>)
             \o SelectRows(Tail(rows), Tail(mask))

FilterCorporate(frame) ==
    [frame EXCEPT !.rows = SelectRows(frame.rows, EqMask(frame, "SecurityType", CorporateBonds))]

-----------------------------------------------------------------------------
(* process_data, line 30: pd.to_numeric(df['Weight'], errors='coerce')    *)

Digits == <<"0", "1", "2", "3", "4", "5", "6", "7", "8", "9">>
IsDigit(c) == \E d \in 1..Len(Digits) : Digits[d] = c
DigitVal(c) == (CHOOSE d \in 1..Len(Digits) : Digits[d] = c) - 1

AllDigits(cs) == cs # <<>> /\ \A i \in 1..Len(cs) : IsDigit(cs[i])

RECURSIVE ParseDigits(_, _)
ParseDigits(cs, acc) ==
    IF cs = <<>> THEN acc ELSE ParseDigits(Tail(cs), acc * Len(Digits) + DigitVal(Head(cs)))

\* a text is numeric when it is an optional sign followed by digits
IsNumericText(cs) ==
    \/ AllDigits(cs)
    \/ cs # <<>> /\ Head(cs) = "-" /\ AllDigits(Tail(cs))

ParseNumber(cs) ==
    IF Head(cs) = "-" THEN 0 - ParseDigits(Tail(cs), 0) ELSE ParseDigits(cs, 0)

\* Variant: what does not parse becomes 0 (.fillna(0) after the coercion)
CoerceCellFillZero(c) ==
    IF c.t = "num" THEN c
    ELSE IF c.t = "str" /\ IsNumericText(c.x) THEN Num(ParseNumber(c.x))
    ELSE Num(0)

\* errors='coerce': what does not parse becomes NaN
CoerceCell(c) ==
    IF c.t = "num" THEN c
    ELSE IF c.t = "str" /\ IsNumericText(c.x) THEN Num(ParseNumber(c.x))
    ELSE NaN

\* Variant: an empty object column comes back as an object column
ToNumericEmptyObject(frame) ==
    LET j == ColIdx(frame.columns, "Weight")
        rows == [i \in 1..Len(frame.rows) |->
                    [frame.rows[i] EXCEPT ![j] = CoerceCell(frame.rows[i][j])]]
    IN IF frame.wdtype # "object" \/ frame.rows = <<>> THEN frame
       ELSE [frame EXCEPT !.rows = rows,
                          !.wdtype = IF \E i \in 1..Len(rows) : IsNaN(rows[i][j])
                                     THEN "float64" ELSE "int64"]

\* a numeric column is returned as it is; an object column is converted cell
\* by cell (an empty one comes back as an empty int64 column)
ToNumeric(frame) ==
    LET j == ColIdx(frame.columns, "Weight")
        rows == [i \in 1..Len(frame.rows) |->
                    [frame.rows[i] EXCEPT ![j] = CoerceCell(frame.rows[i][j])]]
    IN IF frame.wdtype # "object" THEN frame
       ELSE [frame EXCEPT !.rows = rows,
                          !.wdtype = IF \E i \in 1..Len(rows) : IsNaN(rows[i][j])
                                     THEN "float64" ELSE "int64"]

-----------------------------------------------------------------------------
(* Series: a sequence of <<label, cell>>, the cell a number or NaN         *)

Lbl(e) == e[1]
Val(e) == e[2]

NonNaN(ser) == SelectSeq(ser, LAMBDA e : ~IsNaN(Val(e)))
OnlyNaN(ser) == SelectSeq(ser, LAMBDA e : IsNaN(Val(e)))

\* Series.sort_values(ascending=...), default kind='quicksort', which is not
\* a stable sort: entries of equal value may come out in any order.  NaN
\* goes last, in the original order.  The result is one of these sequences.
RECURSIVE SortedOrders(_, _, _)
SortedOrders(ser, idxs, ascending) ==
    IF idxs = {} THEN {<<>>}
    ELSE LET first == {i \in idxs : \A j \in idxs :
                          IF ascending THEN Val(ser[i]).x <= Val(ser[j]).x
                                       ELSE Val(ser[i]).x >= Val(ser[j]).x}
         IN UNION { { <<ser[i]>> \o rest : rest \in SortedOrders(ser, idxs \ {i}, ascending) }
                    : i \in first }

SortValues(ser, ascending) ==
    LET d == NonNaN(ser)
    IN { o \o OnlyNaN(ser) : o \in SortedOrders(d, DOMAIN d, ascending) }

\* argsort(kind='mergesort') on the negated values: descending, and entries
\* of equal value stay in their original order
RECURSIVE StableDescending(_)
StableDescending(ser) ==
    IF ser = <<>> THEN <<>>
    ELSE LET i == CHOOSE k \in DOMAIN ser :
                      /\ \A j \in DOMAIN ser : Val(ser[k]).x >= Val(ser[j]).x
                      /\ \A j \in 1..(k - 1) : Val(ser[j]).x # Val(ser[k]).x
         IN <<ser[i]>> \o StableDescending(RemoveAt(ser, i))

\* algos.kth_smallest on the negated values: the k-th largest value
KthLargest(ser, k) ==
    CHOOSE v \in {Val(ser[i]).x : i \in DOMAIN ser} :
        /\ Cardinality({i \in DOMAIN ser : Val(ser[i]).x > v}) < k
        /\ Cardinality({i \in DOMAIN ser : Val(ser[i]).x >= v}) >= k

\* Series.nlargest(n, keep='first') (SelectNSeries.compute).  With n >= len
\* the whole series is sorted descending (NaN last) and cut to n; otherwise
\* the n largest non-NaN values are selected, the first occurrences winning
\* a tie, and the NaN entries fill what is left of the n places.
NLargest(ser, n) ==
    LET dropped == NonNaN(ser)
        nan_index == OnlyNaN(ser)
        m == IF n < Len(dropped) THEN n ELSE Len(dropped)
    IN IF n <= 0 THEN {<<>>}
       ELSE IF n >= Len(ser) THEN { Take(o, n) : o \in SortValues(ser, FALSE) }
       ELSE IF dropped = <<>> THEN { Take(nan_index, n) }
       ELSE LET kth_val == KthLargest(dropped, m)
                ns == SelectSeq(dropped, LAMBDA e : Val(e).x >= kth_val)
                inds == Take(StableDescending(ns), m)
            IN { Take(inds \o nan_index, n) }

-----------------------------------------------------------------------------
(* process_data, line 33: df.nlargest(10, 'Weight')[['Security', 'Weight']] *)

\* DataFrame.nlargest ranks the column as a Series labelled by row position
\* and takes the rows in the order of the result
Column(frame, name) ==
    LET j == ColIdx(frame.columns, name)
    IN [i \in 1..Len(frame.rows) |-> <<i, frame.rows[i][j]>>]

FrameNLargest(frame, n, name) ==
    { [k \in DOMAIN o |-> frame.rows[Lbl(o[k])]] : o \in NLargest(Column(frame, name), n) }

Project(frame, rows, names) ==
    [i \in DOMAIN rows |-> [k \in DOMAIN names |-> rows[i][ColIdx(frame.columns, names[k])]]]

TopHoldings(frame) ==
    { Project(frame, rows, <<"Security", "Weight">>) : rows \in FrameNLargest(frame, TopN, "Weight") }

-----------------------------------------------------------------------------
(* process_data, lines 36-42: df.groupby(key)['Weight'].sum()              *)

\* the keys of the groups, sorted; a row whose key is blank is in no group
\* (groupby(dropna=True))
GroupKeys(frame, key) ==
    LET j == ColIdx(frame.columns, key)
        ks == {frame.rows[i][j].x : i \in {r \in DOMAIN frame.rows : ~IsNaN(frame.rows[r][j])}}
    IN SelectSeq(KeyOrder, LAMBDA k : k \in ks)

\* sum() skips NaN; the sum of a group with nothing but NaN is 0
GroupTotal(frame, key, k) ==
    LET j == ColIdx(frame.columns, key)
        w == ColIdx(frame.columns, "Weight")
        members == SelectSeq(frame.rows, LAMBDA r : r[j] = Str(k) /\ ~IsNaN(r[w]))
    IN SumVals([i \in DOMAIN members |-> members[i][w].x])

GroupBySum(frame, key) ==
    LET ks == GroupKeys(frame, key)
    IN [i \in DOMAIN ks |-> <<ks[i], Num(GroupTotal(frame, key, ks[i]))>>]

\* Variant: the groups are sorted ascending
ExposureAscending(frame, key) == SortValues(GroupBySum(frame, key), TRUE)

\* lines 36 and 39: .sort_values(ascending=False)
Exposure(frame, key) == SortValues(GroupBySum(frame, key), FALSE)

\* Variant: the ascending sort comes first and the cut to ten second
\* (.sort_values(ascending=True).head(10))
TopIssuersSortThenCut(frame) ==
    { Take(o, TopN) : o \in SortValues(GroupBySum(frame, "Issuer"), TRUE) }

\* line 42: .nlargest(10).sort_values(ascending=True)
TopIssuers(frame) ==
    UNION { SortValues(kept, TRUE) : kept \in NLargest(GroupBySum(frame, "Issuer"), TopN) }

-----------------------------------------------------------------------------
(* create_dashboard / process_data, statement by statement                  *)

Say(text, arg) == [text |-> text, arg |-> arg]

Raise(e) ==
    /\ exc' = e
    /\ pc' = "except"

Init ==
    /\ pc = "start"
    /\ uploaded = [kind |-> "nothing"]
    /\ df = NoFrame
    /\ top_holdings = <<>>
    /\ country_exposure = <<>>
    /\ rating_exposure = <<>>
    /\ top_issuers = <<>>
    /\ exc = NoExc
    /\ stdout = <<>>
    /\ fig = NoFig

\* lines 79-80 and load_data: the upload is empty (next(iter({})) raises
\* StopIteration), or its bytes are no workbook (read_excel raises), or it
\* parses into a frame
LoadData ==
    /\ pc = "start"
    /\ stdout' = stdout \o << Say("Creating dashboard...", ""),
                              Say("Please upload your Excel file.", "") >>
    /\ \/ /\ uploaded' = NoFile
          /\ Raise(Exception("StopIteration", "", 0))
          /\ df' = df
       \/ /\ uploaded' = BadBytes
          /\ Raise(Exception("ValueError", "Excel file format cannot be determined, you must specify an engine manually.", 0))
          /\ df' = df
       \/ \E h \in Headers, k \in BaseSizes, w \in Widths, es \in ExtraSeqs :
          \E cut \in 0..Len(es) :
             /\ w = NumNames \/ Len(es) <= 1
             /\ uploaded' = [kind |-> "sheet", sheet |-> Sheet(h, TableOf(k, es, cut), w)]
             /\ df' = ReadExcel(uploaded'.sheet)
             /\ pc' = "loaded"
             /\ exc' = exc
    /\ UNCHANGED <<top_holdings, country_exposure, rating_exposure, top_issuers, fig>>

\* process_data, lines 21-23
Rename ==
    /\ pc = "loaded"
    /\ stdout' = Append(stdout, Say("Processing data...", ""))
    /\ LET r == SetColumns(df, ColumnNames)
       IN IF r.ok
          THEN df' = r.frame /\ pc' = "renamed" /\ exc' = exc
          ELSE df' = df /\ Raise(r.exc)
    /\ UNCHANGED <<uploaded, top_holdings, country_exposure, rating_exposure, top_issuers, fig>>

\* process_data, lines 26-27
Filter ==
    /\ pc = "renamed"
    /\ df' = FilterCorporate(df)
    /\ stdout' = Append(stdout, Say("Number of corporate bonds: ", Len(df'.rows)))
    /\ pc' = "filtered"
    /\ UNCHANGED <<uploaded, top_holdings, country_exposure, rating_exposure, top_issuers, exc, fig>>

\* process_data, line 30
Coerce ==
    /\ pc = "filtered"
    /\ df' = ToNumeric(df)
    /\ pc' = "coerced"
    /\ UNCHANGED <<uploaded, top_holdings, country_exposure, rating_exposure, top_issuers,
                   exc, stdout, fig>>

\* process_data, line 33; nlargest refuses a column of dtype object
CalcTopHoldings ==
    /\ pc = "coerced"
    /\ IF df.wdtype = "object"
       THEN Raise(Exception("TypeError", "Column 'Weight' has dtype object, cannot use method 'nlargest' with this dtype", 0)) /\ top_holdings' = top_holdings
       ELSE /\ \E th \in TopHoldings(df) : top_holdings' = th
            /\ pc' = "holdings"
            /\ exc' = exc
    /\ UNCHANGED <<uploaded, df, country_exposure, rating_exposure, top_issuers, stdout, fig>>

\* process_data, line 36
CalcCountryExposure ==
    /\ pc = "holdings"
    /\ \E ce \in Exposure(df, "Country") : country_exposure' = ce
    /\ pc' = "country"
    /\ UNCHANGED <<uploaded, df, top_holdings, rating_exposure, top_issuers, exc, stdout, fig>>

\* process_data, line 39
CalcRatingExposure ==
    /\ pc = "country"
    /\ \E re \in Exposure(df, "Rating") : rating_exposure' = re
    /\ pc' = "rating"
    /\ UNCHANGED <<uploaded, df, top_holdings, country_exposure, top_issuers, exc, stdout, fig>>

\* process_data, lines 42-44
CalcTopIssuers ==
    /\ pc = "rating"
    /\ \E ti \in TopIssuers(df) : top_issuers' = ti
    /\ pc' = "processed"
    /\ UNCHANGED <<uploaded, df, top_holdings, country_exposure, rating_exposure, exc, stdout, fig>>

\* create_pie_chart / create_bar_chart: labels=data.index, values=data.values
Trace(kind, ser) ==
    [type |-> kind,
     labels |-> [i \in DOMAIN ser |-> Lbl(ser[i])],
     values |-> [i \in DOMAIN ser |-> Val(ser[i])]]

\* create_dashboard, lines 84-127: the four traces are added and the figure
\* is shown; line 100 re-indexes top_holdings by Security
ShowFigure ==
    /\ pc = "processed"
    /\ fig' = [shown |-> TRUE,
               traces |-> << Trace("pie", country_exposure),
                             Trace("pie", rating_exposure),
                             Trace("bar", top_issuers),
                             Trace("bar", top_holdings) >>]
    /\ stdout' = Append(stdout, Say("Dashboard created. Displaying plot...", ""))
    /\ pc' = "done"
    /\ UNCHANGED <<uploaded, df, top_holdings, country_exposure, rating_exposure,
                   top_issuers, exc>>

\* create_dashboard, lines 129-130: str(e) is the message of the exception
StrOf(e) == [msg |-> e.msg, n |-> e.n]

\* Variant: the message of the exception is not printed
ErrorReportNoDetail(e) ==
    << Say("An error occurred", ""),
       Say("Please make sure you've uploaded the correct Excel file and that it has the expected structure.", "") >>

ErrorReport(e) ==
    << Say("An error occurred: ", StrOf(e)),
       Say("Please make sure you've uploaded the correct Excel file and that it has the expected structure.", "") >>

\* create_dashboard, lines 128-130
HandleError ==
    /\ pc = "except"
    /\ stdout' = stdout \o ErrorReport(exc)
    /\ exc' = NoExc
    /\ pc' = "reported"
    /\ UNCHANGED <<uploaded, df, top_holdings, country_exposure, rating_exposure,
                   top_issuers, fig>>

Next ==
    \/ LoadData
    \/ Rename
    \/ Filter
    \/ Coerce
    \/ CalcTopHoldings
    \/ CalcCountryExposure
    \/ CalcRatingExposure
    \/ CalcTopIssuers
    \/ ShowFigure
    \/ HandleError

Spec == Init /\ [][Next]_vars

-----------------------------------------------------------------------------
(* Vocabulary of the properties.  The fields are addressed by the position *)
(* the specification gives them: Security, Weight, Rating, Country,        *)
(* Issuer, SecurityType.                                                    *)

SixFields == <<"Security", "Weight", "Rating", "Country", "Issuer", "SecurityType">>
FieldPos(name) == CHOOSE j \in 1..Len(SixFields) : SixFields[j] = name

IsSheet == uploaded.kind = "sheet"
SheetWidth == Len(uploaded.sheet.columns)
InputRows == uploaded.sheet.rows

IsText(c, s) == c.t = "str" /\ c.x = s
IsCorporate(r) == IsText(r[FieldPos("SecurityType")], "Corporate Bonds")
WeightOf(r) == r[FieldPos("Weight")]
HasWeight(r) == WeightOf(r).t = "num"

Failed == pc \in {"except", "reported"}
AfterFilter == pc \in {"filtered", "coerced", "holdings", "country", "rating", "processed", "done"}
AfterHoldings == pc \in {"holdings", "country", "rating", "processed", "done"}
AfterCountry == pc \in {"country", "rating", "processed", "done"}
AfterRating == pc \in {"rating", "processed", "done"}
Processed == pc \in {"processed", "done"}

Min(a, b) == IF a < b THEN a ELSE b

\* a is b with some entries left out
RECURSIVE IsSubsequence(_, _)
IsSubsequence(a, b) ==
    IF a = <<>> THEN TRUE
    ELSE IF b = <<>> THEN FALSE
    ELSE IF Head(a) = Head(b) THEN IsSubsequence(Tail(a), Tail(b))
    ELSE IsSubsequence(a, Tail(b))

\* the sum of the weights of the rows at the positions S
RECURSIVE WeightSum(_, _)
WeightSum(rows, S) ==
    IF S = {} THEN 0
    ELSE LET i == CHOOSE k \in S : TRUE
         IN WeightOf(rows[i]).x + WeightSum(rows, S \ {i})

\* the positions of the rows with a present weight and the text k in field f
Members(rows, f, k) ==
    {i \in DOMAIN rows : HasWeight(rows[i]) /\ IsText(rows[i][FieldPos(f)], k)}

\* the texts that occur in field f
Categories(rows, f) ==
    {rows[i][FieldPos(f)].x : i \in {r \in DOMAIN rows : rows[r][FieldPos(f)].t = "str"}}

RECURSIVE SeriesSum(_)
SeriesSum(ser) == IF ser = <<>> THEN 0 ELSE Val(Head(ser)).x + SeriesSum(Tail(ser))

NonIncreasing(ser) == \A a, b \in DOMAIN ser : a < b => Val(ser[a]).x >= Val(ser[b]).x
NonDecreasing(ser) == \A a, b \in DOMAIN ser : a < b => Val(ser[a]).x <= Val(ser[b]).x

-----------------------------------------------------------------------------
\* C1: the filter step yields exactly the records whose SecurityType is the
\* literal "Corporate Bonds" (case-sensitive), in their original relative
\* order: the result is a subsequence of the input, every record of it
\* matches, and no matching record of the input is missing.
C1_FilterExact ==
    pc = "filtered" =>
        /\ IsSubsequence(df.rows, InputRows)
        /\ \A i \in DOMAIN df.rows : IsCorporate(df.rows[i])
        /\ Len(df.rows) = Cardinality({i \in DOMAIN InputRows : IsCorporate(InputRows[i])})

\* a filter that kept some records and dropped others, one of them spelled
\* "corporate bonds"
C1_Witness ==
    /\ pc = "filtered"
    /\ df.rows # <<>>
    /\ Len(df.rows) < Len(InputRows)
    /\ \E i \in DOMAIN InputRows : IsText(InputRows[i][FieldPos("SecurityType")], "corporate bonds")

-----------------------------------------------------------------------------
\* a six-column sheet without a corporate bond record
NoCorporate == IsSheet /\ SheetWidth = 6 /\ \A i \in DOMAIN InputRows : ~IsCorporate(InputRows[i])

\* C7: when no record of the input is a corporate bond, process_data raises
\* nothing, all four views are empty, and the run goes on to show the figure
\* instead of entering the error path.
C7_EmptyResult ==
    NoCorporate =>
        /\ ~Failed
        /\ exc = NoExc
        /\ AfterFilter => df.rows = <<>>
        /\ Processed => /\ top_holdings = <<>>
                        /\ country_exposure = <<>>
                        /\ rating_exposure = <<>>
                        /\ top_issuers = <<>>
        /\ pc = "done" => fig.shown
        /\ pc # "done" => ENABLED Next

\* a run over a sheet with rows, none of them a corporate bond, that has
\* shown its figure
C7_Witness ==
    /\ NoCorporate
    /\ InputRows # <<>>
    /\ pc = "done"
    /\ fig.shown

-----------------------------------------------------------------------------
\* the frame carries the six fields and its rows are the first six cells of
\* the rows of the sheet, position by position
SixFieldTable ==
    /\ df.columns = SixFields
    /\ Len(df.rows) = Len(InputRows)
    /\ \A i \in DOMAIN df.rows :
          /\ Len(df.rows[i]) = 6
          /\ \A j \in 1..6 : df.rows[i][j] = InputRows[i][j]

\* C8 as stated: every sheet of six or more columns parses into the
\* six-field table taken from its first six columns, whatever its header;
\* further columns are ignored and cause no failure.
C8_SixOrMoreColumns ==
    (IsSheet /\ SheetWidth >= 6) =>
        /\ ~Failed
        /\ pc = "renamed" => SixFieldTable

\* C8 (amended): every sheet of exactly six columns parses into the
\* six-field table, its fields taken by position whatever its header; a
\* sheet with more than six columns is refused with a length mismatch when
\* the names are assigned, and the run ends in the error path.
C8_ExactlySixColumns ==
    /\ (IsSheet /\ SheetWidth = 6) =>
          /\ ~Failed
          /\ pc = "renamed" => SixFieldTable
    /\ (IsSheet /\ SheetWidth > 6) =>
          /\ pc \in {"loaded", "except", "reported"}
          /\ pc = "except" => exc.type = "ValueError" /\ exc.n = SheetWidth
          /\ pc # "reported" => ENABLED Next

\* a six-column sheet with rows whose header is not the six field names,
\* renamed
C8_Witness ==
    /\ pc = "renamed"
    /\ InputRows # <<>>
    /\ uploaded.sheet.columns # SixFields
    /\ df.columns = SixFields

-----------------------------------------------------------------------------
\* the lines of stdout that report an error
ErrorLines == SelectSeq(stdout, LAMBDA l : l.text \in {"An error occurred: ", "An error occurred"})

NoResult ==
    /\ top_holdings = <<>>
    /\ country_exposure = <<>>
    /\ rating_exposure = <<>>
    /\ top_issuers = <<>>
    /\ ~fig.shown

\* the failure and its detail, for the inputs that fail structurally
StructuralFailure ==
    \/ uploaded.kind = "badbytes"
    \/ IsSheet /\ SheetWidth < 6

FailureDetail ==
    IF uploaded.kind = "badbytes"
    THEN [msg |-> "Excel file format cannot be determined, you must specify an engine manually.",
          n |-> 0]
    ELSE [msg |-> "Length mismatch: Expected axis has n elements", n |-> SheetWidth]

\* C9: when loading or parsing fails structurally (unparseable bytes, fewer
\* than six columns) the pipeline stops there: no aggregation result exists,
\* no figure is shown, and the failure is reported exactly once with its
\* original detail.  The figure is shown only after load_data and
\* process_data both completed without failure.
C9_StructuralFailureStops ==
    /\ StructuralFailure =>
          /\ NoResult
          /\ pc \in {"loaded", "except", "reported"}
          /\ pc = "except" => ErrorLines = <<>> /\ StrOf(exc) = FailureDetail
          /\ pc = "reported" =>
                /\ Len(ErrorLines) = 1
                /\ ErrorLines[1].text = "An error occurred: "
                /\ ErrorLines[1].arg = FailureDetail
          /\ pc # "reported" => ENABLED Next
    /\ fig.shown =>
          /\ pc = "done"
          /\ IsSheet
          /\ df.columns = SixFields
          /\ ErrorLines = <<>>
          /\ exc = NoExc

\* a sheet of fewer than six columns whose failure has been reported
C9_Witness ==
    /\ pc = "reported"
    /\ IsSheet
    /\ SheetWidth < 6
    /\ InputRows # <<>>
    /\ Len(ErrorLines) = 1

-----------------------------------------------------------------------------
\* the decimal text of an integer
DecimalDigits == <<"0", "1", "2", "3", "4", "5", "6", "7", "8", "9">>
RECURSIVE Decimal(_)
Decimal(n) ==
    IF n < 0 THEN <<"-">> \o Decimal(0 - n)
    ELSE IF n < 10 THEN <<DecimalDigits[n + 1]>>
    ELSE Decimal(n \div 10) \o <<DecimalDigits[(n % 10) + 1]>>

\* a text made of an optional sign and digits, without leading zeros
CanonicalNumber(cs) ==
    LET ds == IF cs # <<>> /\ Head(cs) = "-" THEN Tail(cs) ELSE cs
    IN /\ ds # <<>>
       /\ \A i \in DOMAIN ds : \E d \in DOMAIN DecimalDigits : DecimalDigits[d] = ds[i]
       /\ Len(ds) > 1 => Head(ds) # "0"

HasLetter(cs) ==
    \E i \in DOMAIN cs : cs[i] # "-" /\ \A d \in DOMAIN DecimalDigits : DecimalDigits[d] # cs[i]

\* what the coercion makes of one Weight cell
CoercedAs(old, new) ==
    /\ old.t = "num" => new = old
    /\ old.t = "nan" => new.t = "nan"
    /\ (old.t = "str" /\ CanonicalNumber(old.x)) => new.t = "num" /\ Decimal(new.x) = old.x
    /\ (old.t = "str" /\ (old.x = <<>> \/ HasLetter(old.x))) => new.t = "nan"

\* C10: the coercion changes the Weight field only: it keeps every record,
\* in the same order, with the five other fields as they were; a numeric
\* Weight becomes its numeric value, any other Weight becomes absent (never
\* zero); the step raises nothing.
C10_CoercionFrame ==
    [][ (pc = "filtered" /\ pc' # pc) =>
            /\ pc' = "coerced"
            /\ exc' = NoExc
            /\ df'.columns = df.columns
            /\ Len(df'.rows) = Len(df.rows)
            /\ \A i \in DOMAIN df.rows :
                  /\ \A j \in DOMAIN df.rows[i] :
                        j # FieldPos("Weight") => df'.rows[i][j] = df.rows[i][j]
                  /\ CoercedAs(WeightOf(df.rows[i]), WeightOf(df'.rows[i])) ]_vars

\* a coerced frame that holds a record whose Weight text did not parse, now
\* absent, next to one whose Weight text did parse and one whose Weight is 0
C10_Witness ==
    /\ pc = "coerced"
    /\ \E i \in DOMAIN df.rows : IsText(df.rows[i][FieldPos("Security")], "B") /\ ~HasWeight(df.rows[i])
    /\ \E i \in DOMAIN df.rows : IsText(df.rows[i][FieldPos("Security")], "F") /\ WeightOf(df.rows[i]) = Num(0)

-----------------------------------------------------------------------------
\* the positions of the filtered records with a present Weight
PresentRows == {i \in DOMAIN df.rows : HasWeight(df.rows[i])}

\* how many of the n largest present weights have the value v
ShareOfTop(n, v) ==
    LET above == Cardinality({i \in PresentRows : WeightOf(df.rows[i]).x > v})
        equal == Cardinality({i \in PresentRows : WeightOf(df.rows[i]).x = v})
    IN IF n - above < 0 THEN 0 ELSE Min(equal, n - above)

\* C2: TopHoldings has min(10, number of records with present Weight)
\* entries, none of them with an absent Weight, in descending order of
\* Weight, and every returned Weight is at least every present Weight that
\* was not returned.  (The order among equal weights is left out here: below
\* ten records it is the order sort_values happens to produce.)
C2_TopHoldings ==
    AfterHoldings =>
        /\ Len(top_holdings) = Min(10, Cardinality(PresentRows))
        /\ \A a \in DOMAIN top_holdings : top_holdings[a][2].t = "num"
        /\ \A a, b \in DOMAIN top_holdings :
              a < b => top_holdings[a][2].x >= top_holdings[b][2].x
        /\ \A i \in PresentRows :
              Cardinality({a \in DOMAIN top_holdings : top_holdings[a][2] = WeightOf(df.rows[i])})
                  = ShareOfTop(Len(top_holdings), WeightOf(df.rows[i]).x)

-----------------------------------------------------------------------------
\* the filtered table without its absent-Weight records
PresentOnly == [df EXCEPT !.rows = SelectSeq(df.rows, HasWeight)]

\* C3: each of the four views is the view of the table with the
\* absent-Weight records removed, so a Country, Rating or Issuer whose
\* records all lack a Weight has no entry in any view.
C3_AbsentExcluded ==
    Processed =>
        /\ top_holdings \in TopHoldings(PresentOnly)
        /\ country_exposure \in Exposure(PresentOnly, "Country")
        /\ rating_exposure \in Exposure(PresentOnly, "Rating")
        /\ top_issuers \in TopIssuers(PresentOnly)
        /\ \A a \in DOMAIN country_exposure :
              Members(df.rows, "Country", Lbl(country_exposure[a])) # {}
        /\ \A a \in DOMAIN rating_exposure :
              Members(df.rows, "Rating", Lbl(rating_exposure[a])) # {}
        /\ \A a \in DOMAIN top_issuers :
              Members(df.rows, "Issuer", Lbl(top_issuers[a])) # {}

-----------------------------------------------------------------------------
\* C4: the values of CountryExposure and the values of RatingExposure both
\* add up to the sum of the present weights of the filtered records.
C4_ExposureTotals ==
    AfterRating =>
        /\ SeriesSum(country_exposure) = SeriesSum(rating_exposure)
        /\ SeriesSum(country_exposure) = WeightSum(df.rows, PresentRows)

-----------------------------------------------------------------------------
Labels(ser) == {Lbl(ser[a]) : a \in DOMAIN ser}

\* the series maps each text of field f to the sum of the present weights
\* of the filtered records with that text, each text once
IsGroupSum(ser, f, keys) ==
    /\ Labels(ser) = keys
    /\ Cardinality(keys) = Len(ser)
    /\ \A a \in DOMAIN ser :
          /\ Val(ser[a]).t = "num"
          /\ Val(ser[a]).x = WeightSum(df.rows, Members(df.rows, f, Lbl(ser[a])))

\* C5: TopIssuers has at most 10 entries in ascending order of value, and
\* its entries are the 10 issuers with the largest Weight sums (all issuers
\* when there are fewer than 10): no issuer left out has a larger sum than
\* an issuer kept.
C5_TopIssuers ==
    Processed =>
        LET issuers == Categories(df.rows, "Issuer")
            kept == Labels(top_issuers)
        IN /\ Len(top_issuers) <= 10
           /\ Len(top_issuers) = Min(10, Cardinality(issuers))
           /\ kept \subseteq issuers
           /\ IsGroupSum(top_issuers, "Issuer", kept)
           /\ NonDecreasing(top_issuers)
           /\ \A k \in kept, o \in issuers \ kept :
                 WeightSum(df.rows, Members(df.rows, "Issuer", k))
                     >= WeightSum(df.rows, Members(df.rows, "Issuer", o))

\* more than ten issuers, ten kept, and an issuer left out whose sum is
\* above zero
C5_Witness ==
    /\ pc = "processed"
    /\ Cardinality(Categories(df.rows, "Issuer")) > 10
    /\ Len(top_issuers) = 10
    /\ Val(top_issuers[1]).x < Val(top_issuers[10]).x
    /\ \E o \in Categories(df.rows, "Issuer") \ Labels(top_issuers) :
          WeightSum(df.rows, Members(df.rows, "Issuer", o)) > 0

-----------------------------------------------------------------------------
\* C6: CountryExposure (RatingExposure) maps each Country (Rating) of the
\* filtered records to the sum of the present weights of the records with
\* that Country (Rating), its entries in non-increasing order of the sum,
\* and the presenter receives them in that order.
C6_Exposure ==
    /\ AfterCountry =>
          /\ IsGroupSum(country_exposure, "Country", Categories(df.rows, "Country"))
          /\ NonIncreasing(country_exposure)
    /\ AfterRating =>
          /\ IsGroupSum(rating_exposure, "Rating", Categories(df.rows, "Rating"))
          /\ NonIncreasing(rating_exposure)
    /\ pc = "done" =>
          /\ fig.traces[1].labels = [a \in DOMAIN country_exposure |-> Lbl(country_exposure[a])]
          /\ fig.traces[1].values = [a \in DOMAIN country_exposure |-> Val(country_exposure[a])]
          /\ fig.traces[2].labels = [a \in DOMAIN rating_exposure |-> Lbl(rating_exposure[a])]
          /\ fig.traces[2].values = [a \in DOMAIN rating_exposure |-> Val(rating_exposure[a])]

\* a shown figure whose country view has three entries of different sums,
\* over a table with a record without Weight and a record without Country
C6_Witness ==
    /\ pc = "done"
    /\ Len(country_exposure) = 3
    /\ Val(country_exposure[1]).x > Val(country_exposure[3]).x
    /\ Len(rating_exposure) >= 2
    /\ \E i \in DOMAIN df.rows : ~HasWeight(df.rows[i])
    /\ \E i \in DOMAIN df.rows : df.rows[i][FieldPos("Country")].t = "nan"

====
